---- MODULE Spec2Model ----
(***************************************************************************)
(* Field lineage of a Tableau workbook: canonicalization of field          *)
(* references, formula reference extraction, dependency aggregation,       *)
(* worksheet usage counting and the dependency graph built from them.      *)
(*                                                                         *)
(* A Python str is a sequence of one-character strings, so that slicing,   *)
(* split, strip, join, upper, startswith and the regular expressions act   *)
(* on characters as they do in the source.                                 *)
(***************************************************************************)
EXTENDS Integers, Sequences, FiniteSets, TLC

VARIABLES
    \* TableauFieldsAnalyzer._clean_field_name applied once and twice
    cpc, field_name, clean_name, clean_twice,
    \* TableauFieldsAnalyzer._count_worksheet_field_usage: the document's worksheet
    \* and dashboard elements, the counts, and the two loops' positions
    worksheets, dashboards, usage_counts, wi, di,
    \* TableauFieldsAnalyzer.analyze_fields_usage: its position, the index of
    \* field definitions, and the list it returns
    upc, usage_definitions, usage_results,
    \* FieldDependenciesAnalyzer.analyze_field_dependencies and
    \* FieldDependenciesNetworkVisualizer.create_dependencies_network: the document's
    \* column elements, the position, which call of the analysis runs, the two
    \* column loops' positions, the locals of the analysis, the list the first call
    \* returned, and the locals of the graph builder
    doc, pc, run, ci, pi, field_definitions, dependencies, results, first_results,
    field_types, graph, ri,
    \* what the input path holds, the exception that ended the call, the number of
    \* times ET.parse has read the file in the current call, whether the analysis
    \* runs inside create_dependencies_network, and the dictionary that
    \* generate_network_statistics returned
    file, error, parses, in_network, stats,
    \* main: its position; the file system: whether the output directory of the
    \* visualizer exists
    mpc, output_dir,
    \* ConfigManager: self._config, what the last call of a method returned or
    \* raised, and the number of calls made
    config, outcome, calls

clean_vars == <<cpc, field_name, clean_name, clean_twice>>
usage_vars == <<worksheets, dashboards, usage_counts, wi, di, upc, usage_definitions,
                usage_results>>
file_vars == <<file, error, parses, in_network, stats>>
deps_locals == <<pc, run, ci, pi, field_definitions, dependencies, results,
                 first_results, field_types, graph, ri, in_network, stats>>
deps_vars == <<doc, pc, run, ci, pi, field_definitions, dependencies, results,
               first_results, field_types, graph, ri, file_vars>>
main_vars == <<mpc, output_dir>>
config_vars == <<config, outcome, calls>>
vars == <<clean_vars, usage_vars, deps_vars, main_vars, config_vars>>

-----------------------------------------------------------------------------
(* Bounds of the model *)

\* longest field reference handed to _clean_field_name
MaxRefLen == 6
\* most worksheet elements, and most dashboard elements, of a workbook
MaxSheets == 2
MaxDashboards == 2
\* most column elements of a workbook
MaxColumns == 3
\* most column elements of a workbook whose usage is analyzed
MaxUsageColumns == 2
\* most column elements of a workbook that all three analyses are applied to
MaxIndexColumns == 2
\* the number of calls made on one ConfigManager
MaxCalls == 4

-----------------------------------------------------------------------------
(* Python str operations *)

Range(s) == {s[n] : n \in DOMAIN s}

\* all lists over pool of length at most n
ListsUpTo(pool, n) == UNION {[1..m -> pool] : m \in 0..n}

\* all strings over alphabet of length at most n
StringsUpTo(alphabet, n) == UNION {[1..m -> alphabet] : m \in 0..n}

\* s is a str over alphabet
IsStr(s, alphabet) == DOMAIN s = 1..Len(s) /\ Range(s) \subseteq alphabet

\* s.startswith(prefix), tested at offset at (1-based)
StartsWithAt(s, prefix, at) ==
    /\ at + Len(prefix) - 1 <= Len(s)
    /\ \A n \in 1..Len(prefix) : s[at + n - 1] = prefix[n]

StartsWith(s, prefix) == StartsWithAt(s, prefix, 1)

\* s[1:-1]
Inner(s) == SubSeq(s, 2, Len(s) - 1)

\* sep in s
Contains(s, sep) == \E at \in 1..Len(s) : StartsWithAt(s, sep, at)

RECURSIVE SplitFrom(_, _, _, _)
SplitFrom(s, sep, at, cur) ==
    IF at > Len(s) THEN <<cur>>
    ELSE IF StartsWithAt(s, sep, at)
         THEN <<cur>> \o SplitFrom(s, sep, at + Len(sep), <<>>)
         ELSE SplitFrom(s, sep, at + 1, Append(cur, s[at]))

\* s.split(sep) for a non-empty separator: the list of parts, left to right
Split(s, sep) == SplitFrom(s, sep, 1, <<>>)

-----------------------------------------------------------------------------
(* Canonicalization: TableauFieldsAnalyzer._clean_field_name *)

\* inner.split(":", 1)[1] in place of inner.split(":")[1]: only the prefix goes
clean_field_name_prefix_only(name) ==
    IF name = <<>> \/ ~StartsWith(name, <<"[">>) THEN name
    ELSE LET inner == Inner(name)
             parts == Split(inner, <<":">>)
         IN IF Contains(inner, <<":">>) /\ Len(parts) >= 2
            THEN <<"[">> \o SubSeq(inner, Len(parts[1]) + 2, Len(inner)) \o <<"]">>
            ELSE name

clean_field_name(name) ==
    IF name = <<>> \/ ~StartsWith(name, <<"[">>) THEN name
    ELSE LET inner == Inner(name)
             parts == Split(inner, <<":">>)
         IN IF Contains(inner, <<":">>) /\ Len(parts) >= 2
            THEN <<"[">> \o parts[2] \o <<"]">>
            ELSE name

\* characters of the field references canonicalized below
RefAlphabet == {"[", "]", ":", "a", "b"}

\* nx.DiGraph()
EmptyGraph == [nodes |-> <<>>, attrs |-> <<>>, edges |-> <<>>]

\* no dependency analysis under way
DepsIdle ==
    /\ pc = "idle"
    /\ run = 1
    /\ ci = 1
    /\ pi = 1
    /\ field_definitions = <<>>
    /\ dependencies = <<>>
    /\ results = <<>>
    /\ first_results = <<>>
    /\ field_types = <<>>
    /\ graph = EmptyGraph
    /\ ri = 1
    /\ in_network = FALSE
    /\ stats = <<>>

\* no file read
FileIdle ==
    /\ file = "well-formed"
    /\ doc = <<>>
    /\ error = "none"
    /\ parses = 0

\* no canonicalization under way
CleanIdle ==
    /\ cpc = "idle"
    /\ field_name = <<>>
    /\ clean_name = <<>>
    /\ clean_twice = <<>>

\* no usage count under way
UsageIdle ==
    /\ worksheets = <<>>
    /\ dashboards = <<>>
    /\ usage_counts = <<>>
    /\ wi = 1
    /\ di = 1
    /\ upc = "idle"
    /\ usage_definitions = <<>>
    /\ usage_results = <<>>

\* main is not running and the output directory of the visualizer does not exist
MainIdle ==
    /\ mpc = "idle"
    /\ output_dir = FALSE

\* ConfigManager.__init__: self._config = None, no method called
ConfigIdle ==
    /\ config = [loaded |-> FALSE, keys |-> {}]
    /\ outcome = [method |-> "none", raised |-> "none",
                  returned |-> [loaded |-> FALSE, keys |-> {}]]
    /\ calls = 0

CleanInit ==
    /\ cpc = "start"
    /\ field_name \in StringsUpTo(RefAlphabet, MaxRefLen)
    /\ clean_name = <<>>
    /\ clean_twice = <<>>
    /\ UsageIdle
    /\ DepsIdle
    /\ FileIdle
    /\ MainIdle
    /\ ConfigIdle

\* clean_name = self._clean_field_name(field_name=field_name)
CleanOnce ==
    /\ cpc = "start"
    /\ clean_name' = clean_field_name(field_name)
    /\ cpc' = "once"
    /\ UNCHANGED <<field_name, clean_twice, usage_vars, deps_vars,
                   main_vars, config_vars>>

\* the canonical name canonicalized again
CleanTwice ==
    /\ cpc = "once"
    /\ clean_twice' = clean_field_name(clean_name)
    /\ cpc' = "twice"
    /\ UNCHANGED <<field_name, clean_name, usage_vars, deps_vars,
                   main_vars, config_vars>>

CleanNext == CleanOnce \/ CleanTwice

SpecClean == CleanInit /\ [][CleanNext]_vars

-----------------------------------------------------------------------------
(* C1: _clean_field_name returns a string for every field reference, and    *)
(* canonicalizing the canonical name again leaves it unchanged.             *)
CleanTotalIdempotent ==
    /\ cpc \in {"once", "twice"} =>
          IsStr(clean_name, RefAlphabet)
    /\ cpc = "twice" => clean_twice = clean_name

\* a decorated reference with several colons has been canonicalized twice
CleanDecoratedTwice ==
    /\ cpc = "twice"
    /\ field_name = <<"[", "a", ":", "b", ":", "]">>
    /\ clean_twice = <<"[", "b", "]">>

-----------------------------------------------------------------------------
(* Usage Counter: TableauFieldsAnalyzer._count_worksheet_field_usage *)

\* field references met in worksheets and dashboards
RefS == <<"[", "S", "]">>
RefSumS == <<"[", "s", "u", "m", ":", "S", ":", "q", "k", "]">>
RefT == <<"[", "T", "]">>
RefNoneT == <<"[", "n", "o", "n", "e", ":", "T", ":", "n", "k", "]">>
RefBare == <<"S">>
RefP == <<"[", "P", "]">>
Parameters == <<"P", "a", "r", "a", "m", "e", "t", "e", "r", "s">>
Federated == <<"f", "e", "d">>

\* worksheet elements: the datasource-dependencies (datasource attribute and the
\* column attributes of their column-instances), the encodings (has attr, field
\* attribute), and the text of view/cols/column and view/rows/column
WorksheetPool ==
    { [deps |-> << [datasource |-> Federated, columns |-> <<RefSumS, RefS>>] >>,
       encodings |-> << [attr |-> TRUE, field |-> RefS] >>,
       cols |-> <<RefSumS>>, rows |-> <<>>],
      [deps |-> << [datasource |-> Parameters, columns |-> <<RefP>>],
                   [datasource |-> Federated, columns |-> <<RefNoneT>>] >>,
       encodings |-> << [attr |-> FALSE, field |-> RefS] >>,
       cols |-> <<>>, rows |-> <<RefT, RefNoneT>>],
      [deps |-> <<>>,
       encodings |-> << [attr |-> TRUE, field |-> <<>>], [attr |-> TRUE, field |-> RefT] >>,
       cols |-> <<RefBare, <<>>, RefS>>, rows |-> <<RefSumS>>],
      [deps |-> <<>>, encodings |-> <<>>, cols |-> <<>>, rows |-> <<>>] }

\* dashboard elements: their encodings
DashboardPool ==
    { [encodings |-> << [attr |-> TRUE, field |-> RefS],
                        [attr |-> TRUE, field |-> RefSumS],
                        [attr |-> FALSE, field |-> RefT] >>],
      [encodings |-> << [attr |-> TRUE, field |-> RefBare] >>] }

\* a Python set as the list of its members: set.add that appends a present
\* member again (a list in place of the set)
SetAdd_list(members, x) == Append(members, x)

\* set.add
SetAdd(members, x) == IF x \in Range(members) THEN members ELSE Append(members, x)

\* if field_name and field_name.startswith("["): clean it and add it if non-empty
AddReference(fields, raw) ==
    IF raw /= <<>> /\ StartsWith(raw, <<"[">>)
    THEN LET clean == clean_field_name(raw)
         IN IF clean /= <<>> THEN SetAdd(fields, clean) ELSE fields
    ELSE fields

RECURSIVE AddReferences(_, _, _)
\* a loop adding the references refs[at..] in order
AddReferences(fields, refs, at) ==
    IF at > Len(refs) THEN fields
    ELSE AddReferences(AddReference(fields, refs[at]), refs, at + 1)

RECURSIVE AddDependencyListings_parameters(_, _, _)
\* the loop over the dependency listings without the test that skips the
\* listing of the Parameters datasource
AddDependencyListings_parameters(fields, deps, at) ==
    IF at > Len(deps) THEN fields
    ELSE AddDependencyListings_parameters(
             AddReferences(fields, deps[at].columns, 1), deps, at + 1)

RECURSIVE AddDependencyListings(_, _, _)
\* for datasource_deps in worksheet.findall(".//datasource-dependencies")
AddDependencyListings(fields, deps, at) ==
    IF at > Len(deps) THEN fields
    ELSE IF deps[at].datasource = Parameters
         THEN AddDependencyListings(fields, deps, at + 1)
         ELSE AddDependencyListings(
                  AddReferences(fields, deps[at].columns, 1), deps, at + 1)

RECURSIVE AddEncodings(_, _, _)
\* for encoding in element.findall(".//encoding[@attr]")
AddEncodings(fields, encodings, at) ==
    IF at > Len(encodings) THEN fields
    ELSE IF encodings[at].attr
         THEN AddEncodings(AddReference(fields, encodings[at].field), encodings, at + 1)
         ELSE AddEncodings(fields, encodings, at + 1)

get_worksheet_fields(worksheet) ==
    LET a == AddDependencyListings(<<>>, worksheet.deps, 1)
        b == AddEncodings(a, worksheet.encodings, 1)
        c == AddReferences(b, worksheet.cols, 1)
    IN AddReferences(c, worksheet.rows, 1)

get_dashboard_fields(dashboard) == AddEncodings(<<>>, dashboard.encodings, 1)

RECURSIVE CountFields(_, _, _)
\* for field_name in fields: usage_counts[field_name] = usage_counts.get(field_name, 0) + 1
CountFields(counts, fields, at) ==
    IF at > Len(fields) THEN counts
    ELSE LET f == fields[at]
             was == IF f \in DOMAIN counts THEN counts[f] ELSE 0
         IN CountFields([k \in DOMAIN counts \cup {f} |->
                             IF k = f THEN was + 1 ELSE counts[k]],
                        fields, at + 1)

\* the references of a list that the counter reads: bracketed ones
Bracketed(refs) == {r \in Range(refs) : r /= <<>> /\ StartsWith(r, <<"[">>)}

\* the raw references of one worksheet: (a) column-instances of the dependency
\* listings other than Parameters, (b) encodings with attr, (c) shelf columns
WorksheetReferences(w) ==
    UNION {Bracketed(d.columns) : d \in {x \in Range(w.deps) : x.datasource /= Parameters}}
    \cup Bracketed([n \in DOMAIN w.encodings |->
                      IF w.encodings[n].attr THEN w.encodings[n].field ELSE <<>>])
    \cup Bracketed(w.cols) \cup Bracketed(w.rows)

DashboardReferences(d) ==
    Bracketed([n \in DOMAIN d.encodings |->
                 IF d.encodings[n].attr THEN d.encodings[n].field ELSE <<>>])

\* the contexts counted so far that reference the canonical field f at least once
ContextsReferencing(f) ==
    Cardinality({n \in 1..(wi - 1) :
                    \E r \in WorksheetReferences(worksheets[n]) : clean_field_name(r) = f})
    + Cardinality({n \in 1..(di - 1) :
                    \E r \in DashboardReferences(dashboards[n]) : clean_field_name(r) = f})

CanonicalFields == {clean_field_name(r) : r \in {RefS, RefSumS, RefT, RefNoneT, RefP}}

(* C5: the count of a canonical field is the number of worksheets and        *)
(* dashboards counted so far that reference it at least once (each context   *)
(* adds 1 or 0, whatever the number of raw references and sources), so no    *)
(* count exceeds the number of worksheet plus dashboard elements.            *)
UsageCountIsContextCardinality ==
    /\ DOMAIN usage_counts \subseteq CanonicalFields
    /\ \A f \in CanonicalFields :
          LET count == IF f \in DOMAIN usage_counts THEN usage_counts[f] ELSE 0
          IN /\ count = ContextsReferencing(f)
             /\ count <= Len(worksheets) + Len(dashboards)
    /\ \A f \in DOMAIN usage_counts : usage_counts[f] >= 1

\* a worksheet whose dependency listing, encoding and shelf mention [S] four
\* times, decorated and plain, has been counted: [S] counts once
FieldCountedOncePerWorksheet ==
    /\ wi = 2
    /\ Len(worksheets) = 1
    /\ worksheets[1].cols = <<RefSumS>>
    /\ Len(worksheets[1].deps) = 1
    /\ usage_counts = (RefS :> 1)

-----------------------------------------------------------------------------
(* More of Python str: upper, strip, join, comparison *)

LowerCase == <<"a", "b", "c", "d", "e", "f", "g", "h", "i", "j", "k", "l", "m",
               "n", "o", "p", "q", "r", "s", "t", "u", "v", "w", "x", "y", "z">>
UpperCase == <<"A", "B", "C", "D", "E", "F", "G", "H", "I", "J", "K", "L", "M",
               "N", "O", "P", "Q", "R", "S", "T", "U", "V", "W", "X", "Y", "Z">>
\* the other characters of the workbooks below, by ascending code point
Punctuation == <<" ", "(", ")", "*", "+", ".", "/", "0", ":", ">", "[", "]", "|">>
PunctuationCode == <<32, 40, 41, 42, 43, 46, 47, 48, 58, 62, 91, 93, 124>>

IndexIn(list, c) == CHOOSE n \in DOMAIN list : list[n] = c

\* ord(c)
CodePoint(c) ==
    IF c \in Range(UpperCase) THEN 64 + IndexIn(UpperCase, c)
    ELSE IF c \in Range(LowerCase) THEN 96 + IndexIn(LowerCase, c)
    ELSE PunctuationCode[IndexIn(Punctuation, c)]

\* s.upper()
Upper(s) ==
    [n \in DOMAIN s |->
        IF s[n] \in Range(LowerCase) THEN UpperCase[IndexIn(LowerCase, s[n])] ELSE s[n]]

\* a < b on str: by code point, a proper prefix first
LessStr(a, b) ==
    \E k \in 1..(Len(b)) :
        /\ \A n \in 1..(k - 1) : n <= Len(a) /\ a[n] = b[n]
        /\ \/ k > Len(a)
           \/ k <= Len(a) /\ CodePoint(a[k]) < CodePoint(b[k])

RECURSIVE Strip(_)
\* s.strip()
Strip(s) ==
    IF s = <<>> THEN s
    ELSE IF s[1] = " " THEN Strip(Tail(s))
    ELSE IF s[Len(s)] = " " THEN Strip(SubSeq(s, 1, Len(s) - 1))
    ELSE s

RECURSIVE Join(_, _)
\* sep.join(parts)
Join(sep, parts) ==
    IF parts = <<>> THEN <<>>
    ELSE IF Len(parts) = 1 THEN parts[1]
    ELSE parts[1] \o sep \o Join(sep, Tail(parts))

RECURSIVE Sorted(_)
\* sorted(names) for a set of str
Sorted(names) ==
    IF names = {} THEN <<>>
    ELSE LET least == CHOOSE x \in names : \A y \in names : x = y \/ LessStr(x, y)
         IN <<least>> \o Sorted(names \ {least})

\* the orders in which a Python set may be iterated
IterationOrders(members) ==
    {order \in [1..Cardinality(members) -> members] : Range(order) = members}

\* the position of the first "]" of s at or after at, 0 if there is none
RECURSIVE FirstClose(_, _)
FirstClose(s, at) ==
    IF at > Len(s) THEN 0
    ELSE IF s[at] = "]" THEN at
    ELSE FirstClose(s, at + 1)

-----------------------------------------------------------------------------
(* Workbook documents: the column elements, in document order *)

Separator == <<" ", "|", " ">>
ParametersPrefix == <<"[", "P", "a", "r", "a", "m", "e", "t", "e", "r", "s", "]", ".">>

KeyS == <<"[", "S", "]">>
KeyP == <<"[", "P", "]">>
KeyA == <<"[", "A", "]">>
KeyX == <<"[", "X", "]">>
KeyF == <<"[", "F", "]">>
KeyK == <<"[", "K", "]">>
KeyQ == <<"[", "Q", "]">>
CaptionEnd == <<"E", "n", "d">>
CaptionUV == <<"U", " ", "|", " ", "V">>
CaptionPadded == <<" ", "K">>
CaptionK == <<"K">>
Sales == <<"S", "a", "l", "e", "s">>

\* [S]/[P]
FormulaRatio == <<"[", "S", "]", "/", "[", "P", "]">>
\* [A]+[A]
FormulaTwice == <<"[", "A", "]", "+", "[", "A", "]">>
\* [S]*[Parameters].[P]
FormulaForecast ==
    <<"[", "S", "]", "*", "[", "P", "a", "r", "a", "m", "e", "t", "e", "r", "s", "]",
      ".", "[", "P", "]">>
\* IF [Sales] > 0 THEN SUM([Sales]) ELSE 0 END
FormulaKeywords ==
    <<"I", "F", " ", "[", "S", "a", "l", "e", "s", "]", " ", ">", " ", "0", " ", "T",
      "H", "E", "N", " ", "S", "U", "M", "(", "[", "S", "a", "l", "e", "s", "]", ")",
      " ", "E", "L", "S", "E", " ", "0", " ", "E", "N", "D">>
\* [Sales]+[Sum]+[MIN(S)]*[Parameters].[End]
FormulaBracketedKeyword ==
    <<"[", "S", "a", "l", "e", "s", "]", "+", "[", "S", "u", "m", "]", "+", "[", "M",
      "I", "N", "(", "S", ")", "]", "*", "[", "P", "a", "r", "a", "m", "e", "t", "e",
      "r", "s", "]", ".", "[", "E", "n", "d", "]">>

\* a column element: the element it is nested under and that element's datasource
\* name, its name and caption attributes, whether it has param-domain-type, whether
\* it has a calculation descendant and that calculation's formula attribute
Column(parent, datasource, name, caption, pdt, calc, formula) ==
    [parent |-> parent, datasource |-> datasource, name |-> name, caption |-> caption,
     pdt |-> pdt, calc |-> calc, formula |-> formula]

ColumnPool ==
    { Column("datasource", Federated, KeyS, <<>>, FALSE, FALSE, <<>>),
      Column("datasource", Parameters, KeyP, CaptionEnd, TRUE, FALSE, <<>>),
      Column("datasource", Federated, KeyA, <<>>, FALSE, TRUE, FormulaRatio),
      Column("datasource", Federated, KeyX, CaptionUV, FALSE, TRUE, FormulaTwice),
      Column("datasource-dependencies", Federated, KeyF, <<>>, FALSE, TRUE, FormulaForecast),
      Column("datasource", Federated, <<>>, <<>>, FALSE, TRUE, FormulaForecast),
      Column("datasource", Federated, KeyK, CaptionPadded, FALSE, TRUE, FormulaKeywords),
      Column("datasource-dependencies", Federated, KeyQ, CaptionK, FALSE, TRUE,
             FormulaBracketedKeyword) }

-----------------------------------------------------------------------------
(* Field Definition Indexer of the dependency analyzer:                     *)
(* FieldDependenciesAnalyzer._extract_field_definitions                      *)

\* the dict d with d[key] = value assigned
DictSet(d, key, value) ==
    [k \in DOMAIN d \cup {key} |-> IF k = key THEN value ELSE d[k]]

\* not field_name or not field_name.startswith("["): the column is skipped
IsFieldKey(name) == name /= <<>> /\ StartsWith(name, <<"[">>)

\* caption if caption else field_name[1:-1]
DisplayName(column) ==
    IF column.caption /= <<>> THEN column.caption ELSE Inner(column.name)

RECURSIVE DefinitionsOfDatasources(_, _, _)
\* for datasource in root.findall(".//datasource"): for column in ...: assign
DefinitionsOfDatasources(definitions, columns, at) ==
    IF at > Len(columns) THEN definitions
    ELSE LET column == columns[at]
         IN IF column.parent = "datasource" /\ IsFieldKey(column.name)
            THEN DefinitionsOfDatasources(
                     DictSet(definitions, column.name, DisplayName(column)),
                     columns, at + 1)
            ELSE DefinitionsOfDatasources(definitions, columns, at + 1)

RECURSIVE DefinitionsOfDependencies_overwrite(_, _, _)
\* the datasource-dependencies loop assigning without the test for a key present
DefinitionsOfDependencies_overwrite(definitions, columns, at) ==
    IF at > Len(columns) THEN definitions
    ELSE LET column == columns[at]
         IN IF column.parent = "datasource-dependencies" /\ IsFieldKey(column.name)
            THEN DefinitionsOfDependencies_overwrite(
                     DictSet(definitions, column.name, DisplayName(column)),
                     columns, at + 1)
            ELSE DefinitionsOfDependencies_overwrite(definitions, columns, at + 1)

RECURSIVE DefinitionsOfDependencies(_, _, _)
\* for datasource_deps in root.findall(".//datasource-dependencies"): ...: assign
\* if field_name not in field_definitions
DefinitionsOfDependencies(definitions, columns, at) ==
    IF at > Len(columns) THEN definitions
    ELSE LET column == columns[at]
         IN IF /\ column.parent = "datasource-dependencies"
               /\ IsFieldKey(column.name)
               /\ column.name \notin DOMAIN definitions
            THEN DefinitionsOfDependencies(
                     DictSet(definitions, column.name, DisplayName(column)),
                     columns, at + 1)
            ELSE DefinitionsOfDependencies(definitions, columns, at + 1)

extract_field_definitions(columns) ==
    DefinitionsOfDependencies(DefinitionsOfDatasources(<<>>, columns, 1), columns, 1)

-----------------------------------------------------------------------------
(* Formula Reference Extractor:                                             *)
(* FieldDependenciesAnalyzer._extract_field_references_from_formula         *)

Keywords ==
    { <<"S", "U", "M">>, <<"A", "V", "G">>, <<"C", "O", "U", "N", "T">>,
      <<"M", "I", "N">>, <<"M", "A", "X">>, <<"I", "F">>, <<"T", "H", "E", "N">>,
      <<"E", "L", "S", "E">>, <<"E", "N", "D">> }

RECURSIVE FindTokens(_, _)
\* re.findall(r"\[([^\]]+)\]", formula): the matches from offset at on, left to
\* right, without overlap
FindTokens(formula, at) ==
    IF at > Len(formula) THEN <<>>
    ELSE IF formula[at] = "["
         THEN LET close == FirstClose(formula, at + 1)
              IN IF close > at + 1
                 THEN <<SubSeq(formula, at + 1, close - 1)>>
                          \o FindTokens(formula, close + 1)
                 ELSE FindTokens(formula, at + 1)
         ELSE FindTokens(formula, at + 1)

\* the three tests that skip a match; without the first, keywords pass
Skipped_no_keywords(match) ==
    \/ "(" \in Range(match) \/ ")" \in Range(match)
    \/ StartsWith(match, Parameters)

Skipped(match) ==
    \/ Upper(match) \in Keywords
    \/ "(" \in Range(match) \/ ")" \in Range(match)
    \/ StartsWith(match, Parameters)

\* the display name of a surviving match: by the index, else the raw text
Resolve(match, definitions) ==
    LET field_key == <<"[">> \o match \o <<"]">>
    IN IF field_key \in DOMAIN definitions THEN definitions[field_key] ELSE match

\* the set referenced_fields returned
extract_field_references_from_formula(formula, definitions) ==
    LET matches == FindTokens(formula, 1)
    IN {Resolve(matches[n], definitions) :
            n \in {m \in DOMAIN matches : ~Skipped(matches[m])}}

\* the index after a call that stored the raw text of every surviving match
\* without a definition under its key (a lookup through setdefault)
field_definitions_after_setdefault(formula, definitions) ==
    LET matches == FindTokens(formula, 1)
        RECURSIVE Loop(_, _)
        Loop(index, at) ==
            IF at > Len(matches) THEN index
            ELSE LET field_key == <<"[">> \o matches[at] \o <<"]">>
                 IN IF Skipped(matches[at]) \/ field_key \in DOMAIN index
                    THEN Loop(index, at + 1)
                    ELSE Loop(DictSet(index, field_key, matches[at]), at + 1)
    IN Loop(definitions, 1)

\* the dict field_definitions, passed by reference, after the call of
\* _extract_field_references_from_formula: the loop only tests
\* "field_key in field_definitions" and reads field_definitions[field_key];
\* a match without definition is added to referenced_fields, not to the dict
field_definitions_after(formula, definitions) ==
    definitions

RECURSIVE FindParameters(_, _)
\* re.findall(r"\[Parameters\]\.\[([^\]]+)\]", formula)
FindParameters(formula, at) ==
    IF at > Len(formula) THEN <<>>
    ELSE IF StartsWithAt(formula, ParametersPrefix \o <<"[">>, at)
         THEN LET open == at + Len(ParametersPrefix)
                  close == FirstClose(formula, open + 1)
              IN IF close > open + 1
                 THEN <<SubSeq(formula, open + 1, close - 1)>>
                          \o FindParameters(formula, close + 1)
                 ELSE FindParameters(formula, at + 1)
         ELSE FindParameters(formula, at + 1)

\* param_refs, behind the test "[Parameters]." in formula
ParameterReferences(formula) ==
    IF Contains(formula, ParametersPrefix) THEN FindParameters(formula, 1) ELSE <<>>

-----------------------------------------------------------------------------
(* Dependency Aggregator: FieldDependenciesAnalyzer._extract_field_dependencies *)
(* and _create_dependency_results. The dict dependencies is the list of its   *)
(* items in insertion order.                                                   *)

Keys(items) == {items[n].field : n \in DOMAIN items}

\* if ref not in dependencies: dependencies[ref] = set()
\* dependencies[ref].add(name)
AddDependent(items, ref, name) ==
    IF ref \in Keys(items)
    THEN [n \in DOMAIN items |->
             IF items[n].field = ref THEN [items[n] EXCEPT !.users = @ \cup {name}]
             ELSE items[n]]
    ELSE Append(items, [field |-> ref, users |-> {name}])

RECURSIVE AddDependents(_, _, _, _)
\* for ref_field in refs: ... .add(name), refs in the order iterated
AddDependents(items, refs, name, at) ==
    IF at > Len(refs) THEN items
    ELSE AddDependents(AddDependent(items, refs[at], name), refs, name, at + 1)

\* the second loop naming the consumer by its key, not by its display name
ParameterConsumerName_key(column) == column.name

\* calc_display_name of the second loop
ParameterConsumerName(column) ==
    IF column.caption /= <<>> THEN column.caption
    ELSE IF StartsWith(column.name, <<"[">>) THEN Inner(column.name)
    ELSE column.name

\* the sort key (-used_times, field_name) of a before that of b
KeyBefore_count_only(a, b) == a.used_times > b.used_times

KeyBefore(a, b) ==
    \/ a.used_times > b.used_times
    \/ a.used_times = b.used_times /\ LessStr(a.field_name, b.field_name)

RECURSIVE InsertSorted(_, _)
\* x put into a sorted list behind every record whose key is not after its own
InsertSorted(sorted, x) ==
    IF sorted = <<>> THEN <<x>>
    ELSE IF KeyBefore(x, sorted[1]) THEN <<x>> \o sorted
    ELSE <<sorted[1]>> \o InsertSorted(Tail(sorted), x)

RECURSIVE StableSort(_, _)
\* list.sort(key=...): stable
StableSort(sorted, rest) ==
    IF rest = <<>> THEN sorted
    ELSE StableSort(InsertSorted(sorted, rest[1]), Tail(rest))

RECURSIVE DependencyRecords(_, _)
\* for field_name, dependent_fields in dependencies.items(): append a record
DependencyRecords(items, at) ==
    IF at > Len(items) THEN <<>>
    ELSE IF items[at].users /= {}
         THEN << [field_name |-> items[at].field,
                  where_used |-> Join(Separator, Sorted(items[at].users)),
                  used_times |-> Cardinality(items[at].users)] >>
              \o DependencyRecords(items, at + 1)
         ELSE DependencyRecords(items, at + 1)

\* the records left in the order of the dict: results.sort forgotten
create_dependency_results_unsorted(items) == DependencyRecords(items, 1)

create_dependency_results(items) == StableSort(<<>>, DependencyRecords(items, 1))

-----------------------------------------------------------------------------
(* Graph Builder: FieldDependenciesNetworkVisualizer._extract_field_types    *)
(* and create_dependencies_network. A networkx DiGraph is its nodes in       *)
(* insertion order, their attribute dicts, and its edges in insertion order. *)

\* display_name of _extract_field_types
TypeDisplayName(column) ==
    IF column.caption /= <<>> THEN column.caption
    ELSE IF StartsWith(column.name, <<"[">>) THEN Inner(column.name)
    ELSE column.name

RECURSIVE TypesOfDatasources(_, _, _)
TypesOfDatasources(types, columns, at) ==
    IF at > Len(columns) THEN types
    ELSE LET column == columns[at]
             type == IF column.datasource = Parameters THEN "Parameter"
                     ELSE IF column.calc THEN "Calculated Field"
                     ELSE "Raw Variable"
         IN IF column.parent = "datasource" /\ TypeDisplayName(column) /= <<>>
            THEN TypesOfDatasources(
                     DictSet(types, TypeDisplayName(column), type), columns, at + 1)
            ELSE TypesOfDatasources(types, columns, at + 1)

RECURSIVE TypesOfDependencies(_, _, _)
TypesOfDependencies(types, columns, at) ==
    IF at > Len(columns) THEN types
    ELSE LET column == columns[at]
             type == IF column.pdt THEN "Parameter"
                     ELSE IF column.calc THEN "Calculated Field"
                     ELSE "Raw Variable"
         IN IF /\ column.parent = "datasource-dependencies"
               /\ TypeDisplayName(column) /= <<>>
               /\ TypeDisplayName(column) \notin DOMAIN types
            THEN TypesOfDependencies(
                     DictSet(types, TypeDisplayName(column), type), columns, at + 1)
            ELSE TypesOfDependencies(types, columns, at + 1)

extract_field_types(columns) ==
    TypesOfDependencies(TypesOfDatasources(<<>>, columns, 1), columns, 1)

\* graph.add_node(n, **attributes): a new node is appended, the attributes given
\* replace those the node had
add_node(g, n, attributes) ==
    [nodes |-> IF n \in Range(g.nodes) THEN g.nodes ELSE Append(g.nodes, n),
     attrs |-> DictSet(g.attrs, n, attributes),
     edges |-> g.edges]

\* add_edge of a multigraph: a pair already present is added again
add_edge_parallel(g, u, v) ==
    [g EXCEPT !.edges = Append(@, <<u, v>>)]

\* graph.add_edge(u, v): endpoints that are no nodes yet become nodes without
\* attributes, and an edge already present stays single
add_edge(g, u, v) ==
    LET missing == SelectSeq(<<u, v>>, LAMBDA n : n \notin Range(g.nodes))
        new == IF Len(missing) = 2 /\ u = v THEN <<u>> ELSE missing
    IN [nodes |-> g.nodes \o new,
        attrs |-> [n \in DOMAIN g.attrs \cup Range(new) |->
                      IF n \in DOMAIN g.attrs THEN g.attrs[n] ELSE <<>>],
        edges |-> IF <<u, v>> \in Range(g.edges) THEN g.edges
                  ELSE Append(g.edges, <<u, v>>)]

\* field_types.get(name, default)
TypeOf(types, name, default) == IF name \in DOMAIN types THEN types[name] ELSE default

RECURSIVE AddDependentNodes(_, _, _, _, _)
\* for dependent_field in dependent_fields: strip, and if non-empty add the node
\* and the edge
AddDependentNodes(g, source, parts, types, at) ==
    IF at > Len(parts) THEN g
    ELSE LET dependent_field == Strip(parts[at])
         IN IF dependent_field /= <<>>
            THEN AddDependentNodes(
                     add_edge(
                         add_node(g, dependent_field,
                                  [field_type |-> TypeOf(types, dependent_field,
                                                         "Calculated Field"),
                                   used_times |-> 0,
                                   node_type |-> "dependent"]),
                         source, dependent_field),
                     source, parts, types, at + 1)
            ELSE AddDependentNodes(g, source, parts, types, at + 1)

\* the body of: for dependency in dependencies_results
AddDependency(g, dependency, types) ==
    LET source_field == dependency.field_name
        dependent_fields == Split(dependency.where_used, Separator)
    IN AddDependentNodes(
           add_node(g, source_field,
                    [field_type |-> TypeOf(types, source_field, "Unknown"),
                     used_times |-> dependency.used_times,
                     node_type |-> "source"]),
           source_field, dependent_fields, types, 1)

-----------------------------------------------------------------------------
(* FieldDependenciesNetworkVisualizer.generate_network_statistics. A float   *)
(* quotient is kept as the pair of the integers it divides.                  *)

\* nx.density(graph) of a DiGraph: 0 without edges or with at most one node,
\* else m / (n * (n - 1))
density(G) ==
    LET n == Len(G.nodes)
        m == Len(G.edges)
    IN IF m = 0 \/ n <= 1 THEN [num |-> 0, den |-> 1] ELSE [num |-> m, den |-> n * (n - 1)]

\* nx.is_weakly_connected(graph) on a graph that has nodes: every node is joined
\* to the first by edges taken in either direction
is_weakly_connected(G) ==
    LET RECURSIVE Reached(_)
        Reached(seen) ==
            LET more == seen \cup {e[2] : e \in {d \in Range(G.edges) : d[1] \in seen}}
                             \cup {e[1] : e \in {d \in Range(G.edges) : d[2] \in seen}}
            IN IF more = seen THEN seen ELSE Reached(more)
    IN Reached({G.nodes[1]}) = Range(G.nodes)

\* dict(graph.in_degree()).items(): the nodes in insertion order, each with the
\* number of edges that end at it
in_degrees(G) ==
    [at \in DOMAIN G.nodes |->
        <<G.nodes[at], Cardinality({n \in DOMAIN G.edges : G.edges[n][2] = G.nodes[at]})>>]

\* dict(graph.out_degree()).items(): each node with the number of edges that
\* start at it
out_degrees(G) ==
    [at \in DOMAIN G.nodes |->
        <<G.nodes[at], Cardinality({n \in DOMAIN G.edges : G.edges[n][1] = G.nodes[at]})>>]

\* a maximum that moves on to every later item that is no smaller
max_last(items) ==
    LET RECURSIVE MaxFrom(_, _)
        MaxFrom(best, at) ==
            IF at > Len(items) THEN best
            ELSE MaxFrom(IF items[at][2] >= best[2] THEN items[at] ELSE best, at + 1)
    IN MaxFrom(items[1], 2)

\* max(items, key=lambda x: x[1]) of a non-empty list: a later item replaces the
\* best one only when its key is strictly larger
max(items) ==
    LET RECURSIVE MaxFrom(_, _)
        MaxFrom(best, at) ==
            IF at > Len(items) THEN best
            ELSE MaxFrom(IF items[at][2] > best[2] THEN items[at] ELSE best, at + 1)
    IN MaxFrom(items[1], 2)

\* the dictionary built on a graph that has nodes; the two "most" entries are
\* set only if the degree dictionaries are non-empty
generate_network_statistics(G) ==
    LET RECURSIVE Distribution(_, _)
        \* for node in graph.nodes(): field_types[field_type] = ... + 1
        Distribution(counts, at) ==
            IF at > Len(G.nodes) THEN counts
            ELSE LET attributes == G.attrs[G.nodes[at]]
                     field_type == IF "field_type" \in DOMAIN attributes
                                   THEN attributes.field_type ELSE "Unknown"
                     was == IF field_type \in DOMAIN counts THEN counts[field_type] ELSE 0
                 IN Distribution(DictSet(counts, field_type, was + 1), at + 1)
    IN [total_nodes |-> Len(G.nodes),
        total_edges |-> Len(G.edges),
        density |-> density(G),
        is_connected |-> is_weakly_connected(G),
        field_type_distribution |-> Distribution(<<>>, 1),
        most_dependent_field |-> IF in_degrees(G) /= <<>> THEN max(in_degrees(G)) ELSE <<>>,
        most_used_field |-> IF out_degrees(G) /= <<>> THEN max(out_degrees(G)) ELSE <<>>]

-----------------------------------------------------------------------------
(* Field Analyzer: TableauFieldsAnalyzer._extract_field_definitions,         *)
(* _determine_field_type and _create_usage_results. The index is the list of *)
(* the dict's items in insertion order.                                      *)

\* the column elements of the documents the usage analysis is run on
UsageColumnPool ==
    { Column("datasource", Federated, RefS, <<>>, FALSE, FALSE, <<>>),
      Column("datasource", Federated, RefT, CaptionEnd, FALSE, TRUE, FormulaRatio),
      Column("datasource-dependencies", Federated, RefSumS, <<>>, FALSE, FALSE, <<>>) }

determine_field_type(column) ==
    IF column.pdt THEN "Parameter"
    ELSE IF column.calc THEN "Calculated Field"
    ELSE "Raw Variable"

\* field_definitions[field_name] = {"display_name": ..., "field_type": ...}: a key
\* already present keeps its place and takes the new value
SetDefinition(definitions, column) ==
    LET item == [field |-> column.name,
                 display_name |-> DisplayName(column),
                 field_type |-> determine_field_type(column)]
    IN IF column.name \in Keys(definitions)
       THEN [n \in DOMAIN definitions |->
                IF definitions[n].field = column.name THEN item ELSE definitions[n]]
       ELSE Append(definitions, item)

extract_usage_definitions(columns) ==
    LET RECURSIVE OfDatasources(_, _)
        \* for datasource in root.findall(".//datasource"): skip "Parameters";
        \* for column in datasource.findall(".//column"): assign
        OfDatasources(definitions, at) ==
            IF at > Len(columns) THEN definitions
            ELSE IF /\ columns[at].parent = "datasource"
                    /\ columns[at].datasource /= Parameters
                    /\ IsFieldKey(columns[at].name)
                 THEN OfDatasources(SetDefinition(definitions, columns[at]), at + 1)
                 ELSE OfDatasources(definitions, at + 1)
        RECURSIVE OfDependencies(_, _)
        \* for datasource_deps in root.findall(".//datasource-dependencies"): ...
        \* assign if field_name not in field_definitions
        OfDependencies(definitions, at) ==
            IF at > Len(columns) THEN definitions
            ELSE IF /\ columns[at].parent = "datasource-dependencies"
                    /\ IsFieldKey(columns[at].name)
                    /\ columns[at].name \notin Keys(definitions)
                 THEN OfDependencies(SetDefinition(definitions, columns[at]), at + 1)
                 ELSE OfDependencies(definitions, at + 1)
    IN OfDependencies(OfDatasources(<<>>, 1), 1)

\* usage_counts.get(field_key, 0)
UsageCount(counts, field_key) == IF field_key \in DOMAIN counts THEN counts[field_key] ELSE 0

create_usage_results(definitions, counts) ==
    LET RECURSIVE Records(_)
        \* for field_key, field_info in field_definitions.items(): append a record
        \* if usage_count > 0
        Records(at) ==
            IF at > Len(definitions) THEN <<>>
            ELSE IF UsageCount(counts, definitions[at].field) > 0
                 THEN << [field_name |-> definitions[at].display_name,
                          field_type |-> definitions[at].field_type,
                          used_times |-> UsageCount(counts, definitions[at].field)] >>
                      \o Records(at + 1)
                 ELSE Records(at + 1)
    IN StableSort(<<>>, Records(1))

-----------------------------------------------------------------------------
(* The usage analysis of one workbook: analyze_fields_usage *)

UsageInit ==
    /\ upc = "call"
    /\ file \in {"missing", "malformed", "well-formed"}
    /\ doc \in IF file = "well-formed"
               THEN ListsUpTo(UsageColumnPool, MaxUsageColumns) ELSE {<<>>}
    /\ worksheets \in IF file = "well-formed"
                      THEN ListsUpTo(WorksheetPool, MaxSheets) ELSE {<<>>}
    /\ dashboards \in IF file = "well-formed"
                      THEN ListsUpTo(DashboardPool, MaxDashboards) ELSE {<<>>}
    /\ error = "none"
    /\ parses = 0
    /\ usage_definitions = <<>>
    /\ usage_counts = <<>>
    /\ usage_results = <<>>
    /\ wi = 1
    /\ di = 1
    /\ CleanIdle
    /\ MainIdle
    /\ ConfigIdle
    /\ DepsIdle

\* analyze_fields_usage: the existence test of the path, then
\* tree = ET.parse(self.file_path), whose ParseError is logged and raised again
ParseForUsage ==
    /\ upc = "call"
    /\ CASE file = "missing" ->
              /\ upc' = "raised"
              /\ error' = "FileNotFoundError"
              /\ parses' = parses
         [] file = "malformed" ->
              /\ upc' = "raised"
              /\ error' = "ParseError"
              /\ parses' = parses + 1
         [] OTHER ->
              /\ upc' = "definitions"
              /\ error' = error
              /\ parses' = parses + 1
    /\ UNCHANGED <<worksheets, dashboards, usage_counts, wi, di, usage_definitions,
                   usage_results, doc, file, deps_locals, clean_vars,
                   main_vars, config_vars>>

\* field_definitions = self._extract_field_definitions(root=root)
ExtractUsageDefinitions ==
    /\ upc = "definitions"
    /\ usage_definitions' = extract_usage_definitions(doc)
    /\ upc' = "counting"
    /\ UNCHANGED <<worksheets, dashboards, usage_counts, wi, di, usage_results,
                   doc, file, error, parses, deps_locals, clean_vars,
                   main_vars, config_vars>>

\* one turn of: for worksheet in root.findall(".//worksheet")
CountWorksheet ==
    /\ upc = "counting"
    /\ wi <= Len(worksheets)
    /\ usage_counts' = CountFields(usage_counts, get_worksheet_fields(worksheets[wi]), 1)
    /\ wi' = wi + 1
    /\ UNCHANGED <<worksheets, dashboards, di, upc, usage_definitions, usage_results,
                   doc, file, error, parses, deps_locals, clean_vars,
                   main_vars, config_vars>>

\* one turn of: for dashboard in root.findall(".//dashboard")
CountDashboard ==
    /\ upc = "counting"
    /\ wi > Len(worksheets)
    /\ di <= Len(dashboards)
    /\ usage_counts' = CountFields(usage_counts, get_dashboard_fields(dashboards[di]), 1)
    /\ di' = di + 1
    /\ UNCHANGED <<worksheets, dashboards, wi, upc, usage_definitions, usage_results,
                   doc, file, error, parses, deps_locals, clean_vars,
                   main_vars, config_vars>>

\* results = self._create_usage_results(...); return results
CreateUsageResults ==
    /\ upc = "counting"
    /\ wi > Len(worksheets)
    /\ di > Len(dashboards)
    /\ usage_results' = create_usage_results(usage_definitions, usage_counts)
    /\ upc' = "returned"
    /\ UNCHANGED <<worksheets, dashboards, usage_counts, wi, di, usage_definitions,
                   doc, file, error, parses, deps_locals, clean_vars,
                   main_vars, config_vars>>

UsageNext ==
    \/ ParseForUsage
    \/ ExtractUsageDefinitions
    \/ CountWorksheet
    \/ CountDashboard
    \/ CreateUsageResults

SpecUsage == UsageInit /\ [][UsageNext]_vars

-----------------------------------------------------------------------------
(* The dependency analysis of one workbook: analyze_field_dependencies, run  *)
(* by extract_field_dependencies and again by create_dependencies_network,   *)
(* which then builds the graph                                               *)

Init ==
    /\ pc \in {"analyze", "construct"}
    /\ file \in {"missing", "malformed", "well-formed"}
    /\ doc \in IF file = "well-formed" THEN ListsUpTo(ColumnPool, MaxColumns) ELSE {<<>>}
    /\ error = "none"
    /\ parses = 0
    /\ in_network = FALSE
    /\ stats = <<>>
    /\ run = 1
    /\ ci = 1
    /\ pi = 1
    /\ field_definitions = <<>>
    /\ dependencies = <<>>
    /\ results = <<>>
    /\ first_results = <<>>
    /\ field_types = <<>>
    /\ graph = EmptyGraph
    /\ ri = 1
    /\ CleanIdle
    /\ MainIdle
    /\ ConfigIdle
    /\ UsageIdle

\* create_field_dependencies_network: FieldDependenciesNetworkVisualizer(...),
\* whose __init__ runs self.output_dir.mkdir(exist_ok=True) (networkx and
\* matplotlib are installed); then visualizer.run() calls
\* create_dependencies_network
ConstructVisualizer ==
    /\ pc = "construct"
    /\ output_dir' = TRUE
    /\ pc' = "network"
    /\ UNCHANGED <<doc, run, ci, pi, field_definitions, dependencies, results,
                   first_results, field_types, graph, ri, file_vars, mpc,
                   clean_vars, usage_vars, config_vars>>

\* create_dependencies_network: the existence test of the path, then the
\* analyzer is made and its analysis called
CheckNetworkPath ==
    /\ pc = "network"
    /\ IF file = "missing"
       THEN /\ pc' = "raised"
            /\ error' = "FileNotFoundError"
            /\ in_network' = in_network
       ELSE /\ pc' = "analyze"
            /\ error' = error
            /\ in_network' = TRUE
    /\ UNCHANGED <<doc, run, ci, pi, field_definitions, dependencies, results,
                   first_results, field_types, graph, ri, file, parses, stats,
                   clean_vars, usage_vars,
                   main_vars, config_vars>>

\* ET.parse called before the existence test
ParseWorkbook_parse_first ==
    /\ pc = "analyze"
    /\ pc' = IF file = "well-formed" THEN "definitions" ELSE "raised"
    /\ error' = CASE file = "missing" -> "FileNotFoundError"
                  [] file = "malformed" -> "ParseError"
                  [] OTHER -> error
    /\ parses' = parses + 1
    /\ UNCHANGED <<doc, run, ci, pi, field_definitions, dependencies, results,
                   first_results, field_types, graph, ri, file, in_network, stats,
                   clean_vars, usage_vars,
                   main_vars, config_vars>>

\* analyze_field_dependencies: the existence test of the path, then
\* tree = ET.parse(self.file_path), whose ParseError is logged and raised again
ParseWorkbook ==
    /\ pc = "analyze"
    /\ CASE file = "missing" ->
              /\ pc' = "raised"
              /\ error' = "FileNotFoundError"
              /\ parses' = parses
         [] file = "malformed" ->
              /\ pc' = "raised"
              /\ error' = "ParseError"
              /\ parses' = parses + 1
         [] OTHER ->
              /\ pc' = "definitions"
              /\ error' = error
              /\ parses' = parses + 1
    /\ UNCHANGED <<doc, run, ci, pi, field_definitions, dependencies, results,
                   first_results, field_types, graph, ri, file, in_network, stats,
                   clean_vars, usage_vars,
                   main_vars, config_vars>>

\* field_definitions = self._extract_field_definitions(root=root)
ExtractFieldDefinitions ==
    /\ pc = "definitions"
    /\ field_definitions' = extract_field_definitions(doc)
    /\ dependencies' = <<>>
    /\ ci' = 1
    /\ pi' = 1
    /\ pc' = "dependencies"
    /\ UNCHANGED <<doc, run, results, first_results, field_types, graph, ri,
                   file_vars, clean_vars, usage_vars,
                   main_vars, config_vars>>

\* one turn of the first loop of _extract_field_dependencies; the set
\* referenced_fields is iterated in any order
FieldReferencesOfColumn ==
    /\ pc = "dependencies"
    /\ ci <= Len(doc)
    /\ LET column == doc[ci]
       IN IF column.calc /\ IsFieldKey(column.name) /\ column.formula /= <<>>
          THEN /\ \E order \in IterationOrders(
                          extract_field_references_from_formula(
                              column.formula, field_definitions)) :
                     dependencies' =
                         AddDependents(dependencies, order, DisplayName(column), 1)
               /\ field_definitions' =
                      field_definitions_after(column.formula, field_definitions)
          ELSE /\ dependencies' = dependencies
               /\ field_definitions' = field_definitions
    /\ ci' = ci + 1
    /\ UNCHANGED <<pc, doc, run, pi, results, first_results,
                   field_types, graph, ri, file_vars, clean_vars, usage_vars,
                   main_vars, config_vars>>

\* one turn of the second loop of _extract_field_dependencies
ParameterUsageOfColumn ==
    /\ pc = "dependencies"
    /\ ci > Len(doc)
    /\ pi <= Len(doc)
    /\ LET column == doc[pi]
       IN IF column.calc /\ column.formula /= <<>>
          THEN dependencies' =
                   AddDependents(dependencies, ParameterReferences(column.formula),
                                 ParameterConsumerName(column), 1)
          ELSE dependencies' = dependencies
    /\ pi' = pi + 1
    /\ UNCHANGED <<pc, doc, run, ci, field_definitions, results, first_results,
                   field_types, graph, ri, file_vars, clean_vars, usage_vars,
                   main_vars, config_vars>>

\* results = self._create_dependency_results(dependencies=dependencies); return
CreateDependencyResults ==
    /\ pc = "dependencies"
    /\ ci > Len(doc)
    /\ pi > Len(doc)
    /\ results' = create_dependency_results(dependencies)
    /\ pc' = "returned"
    /\ UNCHANGED <<doc, run, ci, pi, field_definitions, dependencies, first_results,
                   field_types, graph, ri, file_vars, clean_vars, usage_vars,
                   main_vars, config_vars>>

\* main: extract_field_dependencies has returned, create_field_dependencies_network
\* is called on the same file
AnalyzeAgain ==
    /\ pc = "returned"
    /\ ~in_network
    /\ run = 1
    /\ first_results' = results
    /\ run' = 2
    /\ pc' = "construct"
    /\ parses' = 0
    /\ field_definitions' = <<>>
    /\ dependencies' = <<>>
    /\ results' = <<>>
    /\ ci' = 1
    /\ pi' = 1
    /\ UNCHANGED <<doc, field_types, graph, ri, file, error, in_network, stats,
                   clean_vars, usage_vars,
                   main_vars, config_vars>>

\* create_dependencies_network: the analysis has returned; tree = ET.parse(...)
\* field_types = self._extract_field_types(root=root); graph = nx.DiGraph()
CreateGraph ==
    /\ pc = "returned"
    /\ in_network
    /\ parses' = parses + 1
    /\ field_types' = extract_field_types(doc)
    /\ graph' = EmptyGraph
    /\ ri' = 1
    /\ pc' = "graph"
    /\ UNCHANGED <<doc, run, ci, pi, field_definitions, dependencies, results,
                   first_results, file, error, in_network, stats,
                   clean_vars, usage_vars,
                   main_vars, config_vars>>

\* one turn of: for dependency in dependencies_results
AddDependencyToGraph ==
    /\ pc = "graph"
    /\ ri <= Len(results)
    /\ graph' = AddDependency(graph, results[ri], field_types)
    /\ ri' = ri + 1
    /\ UNCHANGED <<pc, doc, run, ci, pi, field_definitions, dependencies, results,
                   first_results, field_types, file_vars, clean_vars, usage_vars,
                   main_vars, config_vars>>

\* run: stats = self.generate_network_statistics(graph=graph); the dictionary
\* literal calls nx.is_weakly_connected, which raises on a graph without nodes
GenerateNetworkStatistics ==
    /\ pc = "graph"
    /\ ri > Len(results)
    /\ IF graph.nodes = <<>>
       THEN /\ pc' = "raised"
            /\ error' = "NetworkXPointlessConcept"
            /\ stats' = stats
       ELSE /\ pc' = "statistics"
            /\ error' = error
            /\ stats' = generate_network_statistics(graph)
    /\ UNCHANGED <<doc, run, ci, pi, field_definitions, dependencies, results,
                   first_results, field_types, graph, ri, file, parses, in_network,
                   clean_vars, usage_vars,
                   main_vars, config_vars>>

Next ==
    \/ ConstructVisualizer
    \/ CheckNetworkPath
    \/ ParseWorkbook
    \/ GenerateNetworkStatistics
    \/ ExtractFieldDefinitions
    \/ FieldReferencesOfColumn
    \/ ParameterUsageOfColumn
    \/ CreateDependencyResults
    \/ AnalyzeAgain
    \/ CreateGraph
    \/ AddDependencyToGraph

Spec == Init /\ [][Next]_vars

\* the workbooks in which every column element carries a field key
WellFormedInit == Init /\ \A n \in DOMAIN doc : IsFieldKey(doc[n].name)

SpecWellFormed == WellFormedInit /\ [][Next]_vars

\* analyze_field_dependencies has returned its list
Returned ==
    \/ pc \in {"returned", "graph", "statistics"}
    \/ pc = "raised" /\ error = "NetworkXPointlessConcept"

\* create_dependencies_network has returned its graph
GraphBuilt == pc = "graph" /\ ri > Len(results)

-----------------------------------------------------------------------------
(* The three analyses applied to one workbook: each is called on its own, or *)
(* a dependency network is built after the usage analysis has returned       *)

\* column elements that share a key between two datasource columns, between a
\* datasource and a datasource-dependencies listing, and between the Parameters
\* datasource and its listing; a column with param-domain-type outside Parameters;
\* a column whose name opens a bracket and does not close it, and a column whose
\* name has no bracket
IndexPool ==
    { Column("datasource", Federated, KeyS, <<>>, FALSE, FALSE, <<>>),
      Column("datasource", Federated, KeyS, Sales, FALSE, TRUE, FormulaTwice),
      Column("datasource-dependencies", Federated, KeyS, CaptionK, FALSE, FALSE, <<>>),
      Column("datasource", Parameters, KeyP, CaptionEnd, TRUE, FALSE, <<>>),
      Column("datasource-dependencies", Parameters, KeyP, CaptionK, TRUE, FALSE, <<>>),
      Column("datasource", Federated, RefT, <<>>, TRUE, FALSE, <<>>),
      Column("datasource-dependencies", Federated, KeyF, <<>>, FALSE, TRUE, FormulaForecast),
      Column("datasource", Federated, <<"[", "S">>, <<>>, FALSE, FALSE, <<>>),
      Column("datasource-dependencies", Federated, RefBare, <<>>, FALSE, FALSE, <<>>) }

WorkbookInit ==
    /\ file \in {"missing", "malformed", "well-formed"}
    /\ doc \in IF file = "well-formed" THEN ListsUpTo(IndexPool, MaxIndexColumns) ELSE {<<>>}
    /\ \/ /\ upc = "call"
          /\ pc = "idle"
          /\ worksheets \in IF file = "well-formed"
                            THEN {<<worksheet>> : worksheet \in WorksheetPool} ELSE {<<>>}
          /\ dashboards \in IF file = "well-formed"
                            THEN {<<dashboard>> : dashboard \in DashboardPool} ELSE {<<>>}
       \/ /\ upc = "idle"
          /\ pc \in {"analyze", "construct"}
          /\ worksheets = <<>>
          /\ dashboards = <<>>
    /\ error = "none"
    /\ parses = 0
    /\ usage_definitions = <<>>
    /\ usage_counts = <<>>
    /\ usage_results = <<>>
    /\ wi = 1
    /\ di = 1
    /\ run = 1
    /\ ci = 1
    /\ pi = 1
    /\ field_definitions = <<>>
    /\ dependencies = <<>>
    /\ results = <<>>
    /\ first_results = <<>>
    /\ field_types = <<>>
    /\ graph = EmptyGraph
    /\ ri = 1
    /\ in_network = FALSE
    /\ stats = <<>>
    /\ CleanIdle
    /\ MainIdle
    /\ ConfigIdle

\* analyze_tableau_fields has returned; create_field_dependencies_network is
\* called on the same file
CallNetwork ==
    /\ upc = "returned"
    /\ pc = "idle"
    /\ pc' = "construct"
    /\ parses' = 0
    /\ UNCHANGED <<doc, run, ci, pi, field_definitions, dependencies, results,
                   first_results, field_types, graph, ri, file, error, in_network,
                   stats, clean_vars, usage_vars,
                   main_vars, config_vars>>

WorkbookNext == UsageNext \/ CallNetwork \/ Next

SpecWorkbook == WorkbookInit /\ [][WorkbookNext]_vars

\* _extract_field_definitions of the usage analysis has returned its index
UsageIndexed == upc \in {"counting", "returned"}

\* _extract_field_definitions of the dependency analysis has returned its index
DependenciesIndexed == pc \in {"dependencies", "returned", "graph", "statistics"}

\* _extract_field_types has returned its dictionary
TypesExtracted == pc \in {"graph", "statistics"}

\* the places of the column elements of the document that carry key under parent
ColumnsOf(parent, key) ==
    {n \in DOMAIN doc : doc[n].parent = parent /\ doc[n].name = key /\ IsFieldKey(key)}

-----------------------------------------------------------------------------
(* Claims about the dependency records *)

\* the calculated fields of the document: columns with a field key, a calculation
\* and a formula
CalculatedFields ==
    {n \in DOMAIN doc : doc[n].calc /\ IsFieldKey(doc[n].name) /\ doc[n].formula /= <<>>}

\* the names the formula of calculated field n references: surviving bracket
\* tokens resolved by the index, and [Parameters].[name] matches
References(n) ==
    extract_field_references_from_formula(doc[n].formula, field_definitions)
    \cup Range(ParameterReferences(doc[n].formula))

\* the display names of the calculated fields whose formula references source
Consumers(source) ==
    {DisplayName(doc[n]) : n \in {m \in CalculatedFields : source \in References(m)}}

RecordNames == {results[n].field_name : n \in DOMAIN results}

\* the consumer set the aggregator holds for source
Users(source) ==
    UNION {dependencies[n].users :
               n \in {m \in DOMAIN dependencies : dependencies[m].field = source}}

(* C2: the records returned name exactly the sources that some calculated    *)
(* field's formula references; used_times is the number of distinct display  *)
(* names of the calculated fields referencing the source and where_used      *)
(* lists exactly those names, each once.                                     *)
DependencyResultCorrect ==
    Returned =>
        /\ RecordNames = UNION {References(n) : n \in CalculatedFields}
        /\ \A n \in DOMAIN results :
              /\ results[n].used_times = Cardinality(Consumers(results[n].field_name))
              /\ results[n].where_used =
                     Join(Separator, Sorted(Consumers(results[n].field_name)))

\* the example formula references the single source Sales
ExampleYieldsSales ==
    \A n \in CalculatedFields :
        doc[n].formula = FormulaKeywords => References(n) = {Sales}

(* C3 as stated: no keyword, in any letter case, is the field_name of a      *)
(* dependency record, and the example formula yields the single source Sales.*)
KeywordNeverASource ==
    Returned =>
        /\ \A n \in DOMAIN results : Upper(results[n].field_name) \notin Keywords
        /\ ExampleYieldsSales

(* C3 amended: a dependency record is named by a keyword only where that     *)
(* name is the caption of an indexed column or the inner name of a           *)
(* [Parameters].[name] match, never where it is the text of a bracket token; *)
(* and the example formula yields the single source Sales.                   *)
KeywordSourceOnlyByCaptionOrParameter ==
    Returned =>
        /\ \A n \in DOMAIN results :
              Upper(results[n].field_name) \in Keywords =>
                  \/ \E m \in DOMAIN doc :
                        /\ doc[m].calc
                        /\ results[n].field_name
                               \in Range(ParameterReferences(doc[m].formula))
                  \/ \E m \in DOMAIN doc :
                        /\ IsFieldKey(doc[m].name)
                        /\ doc[m].caption = results[n].field_name
                        /\ field_definitions[doc[m].name] = results[n].field_name
        /\ ExampleYieldsSales

\* the example formula and a formula with the bracket token [Sum] have been
\* analyzed: the sources are Sales and the parameter End
KeywordTokensAnalyzed ==
    /\ Returned
    /\ \E n \in CalculatedFields : doc[n].formula = FormulaKeywords
    /\ \E n \in CalculatedFields : doc[n].formula = FormulaBracketedKeyword
    /\ RecordNames = {Sales, CaptionEnd}

(* C4: for every calculated field C and every [Parameters].[P] match of its  *)
(* formula, the dependency map holds the inner name P itself as a source     *)
(* with C's display name among its consumers, and every ordinary reference   *)
(* of the same formula has C's display name among its consumers as well.     *)
ParameterReferenceRecorded ==
    Returned =>
        \A n \in CalculatedFields :
            /\ \A p \in Range(ParameterReferences(doc[n].formula)) :
                  DisplayName(doc[n]) \in Users(p)
            /\ \A f \in extract_field_references_from_formula(
                            doc[n].formula, field_definitions) :
                  DisplayName(doc[n]) \in Users(f)

\* [S]*[Parameters].[P] of the calculated field F has been analyzed while [P]
\* is indexed under the caption End: the sources are S, End and P itself
ForecastAnalyzed ==
    /\ Returned
    /\ \E n \in CalculatedFields : doc[n].name = KeyF
    /\ KeyP \in DOMAIN field_definitions
    /\ Users(<<"P">>) = {<<"F">>}
    /\ Users(<<"S">>) = {<<"F">>}
    /\ Users(CaptionEnd) = {<<"F">>}

(* C9: the records are in descending order of used_times and, among equal    *)
(* used_times, in ascending order of field_name by code point; the names are *)
(* pairwise distinct.                                                        *)
ResultsSorted ==
    Returned =>
        /\ \A n \in 1..(Len(results) - 1) :
              \/ results[n].used_times > results[n + 1].used_times
              \/ /\ results[n].used_times = results[n + 1].used_times
                 /\ LessStr(results[n].field_name, results[n + 1].field_name)
        /\ \A n, m \in DOMAIN results :
              results[n].field_name = results[m].field_name => n = m

\* a list with a descent of used_times and a tie, built from a dict whose
\* insertion order is another one
SortedWithTie ==
    /\ Returned
    /\ Len(results) >= 3
    /\ \E n \in 1..(Len(results) - 1) :
          results[n].used_times > results[n + 1].used_times
    /\ \E n \in 1..(Len(results) - 1) :
          results[n].used_times = results[n + 1].used_times
    /\ \E n \in DOMAIN results : dependencies[n].field /= results[n].field_name

(* C10: the second analysis of the same document returns the list the first  *)
(* one returned, whatever the orders in which the sets were iterated.        *)
Deterministic ==
    (run = 2 /\ Returned) => results = first_results

\* the second analysis has returned, its dict filled in an order that is not the
\* order of the records
SecondRunReturned ==
    /\ run = 2
    /\ Returned
    /\ Len(results) >= 2
    /\ LessStr(dependencies[2].field, dependencies[1].field)
    /\ dependencies[1].users = dependencies[2].users

-----------------------------------------------------------------------------
(* Claims about the graph *)

(* C6: both endpoints of every edge are nodes, and no (source, consumer)     *)
(* pair is an edge more than once.                                           *)
GraphConsistent ==
    /\ \A n \in DOMAIN graph.edges :
          /\ graph.edges[n][1] \in Range(graph.nodes)
          /\ graph.edges[n][2] \in Range(graph.nodes)
    /\ \A n, m \in DOMAIN graph.edges : graph.edges[n] = graph.edges[m] => n = m

\* a graph built from a record whose where_used names K twice after stripping
EdgeAddedTwice ==
    /\ GraphBuilt
    /\ \E n \in DOMAIN results :
          /\ results[n].field_name = Sales
          /\ results[n].where_used = CaptionPadded \o Separator \o CaptionK
    /\ <<Sales, CaptionK>> \in Range(graph.edges)

(* C7: in the graph returned, the used_times of a node that is a source is   *)
(* the number of its distinct consumers, and the used_times of a node that   *)
(* is no source is 0.                                                        *)
NodeUsedTimes ==
    GraphBuilt =>
        \A node \in Range(graph.nodes) :
            graph.attrs[node].used_times =
                IF node \in Keys(dependencies) THEN Cardinality(Users(node)) ELSE 0

(* C8: the edges of the graph returned are exactly the (source, consumer)    *)
(* pairs of the aggregator, and its nodes exactly the display names that are *)
(* a source or a consumer.                                                   *)
GraphEqualsAggregatorOutput ==
    GraphBuilt =>
        /\ Range(graph.edges) =
               UNION {{<<dependencies[n].field, user>> : user \in dependencies[n].users} :
                          n \in DOMAIN dependencies}
        /\ Range(graph.nodes) =
               Keys(dependencies) \cup UNION {dependencies[n].users : n \in DOMAIN dependencies}

-----------------------------------------------------------------------------
(* Claims about the network statistics *)

\* generate_network_statistics has been called on the graph returned
StatisticsCalled ==
    \/ pc = "statistics"
    \/ pc = "raised" /\ error = "NetworkXPointlessConcept"

(* C11: once generate_network_statistics has been called on a graph of n     *)
(* nodes and e edges it has reported a density, which is e / (n * (n - 1))   *)
(* when n >= 2 and 0 when n < 2.                                             *)
DensityReported ==
    StatisticsCalled =>
        /\ "density" \in DOMAIN stats
        /\ LET n == Len(graph.nodes)
               e == Len(graph.edges)
           IN IF n >= 2
              THEN stats.density.num * n * (n - 1) = e * stats.density.den
              ELSE stats.density.num = 0

(* C12: the statistics name as most_dependent_field (most_used_field) the    *)
(* node of the largest in-degree (out-degree) that was inserted into the     *)
(* graph before every other node of that degree, and the insertion order of  *)
(* the nodes is the order of first occurrence in the sorted dependency       *)
(* records.                                                                  *)
TieBreakFirstInserted ==
    pc = "statistics" =>
        LET Largest(items) == {a \in DOMAIN items : \A b \in DOMAIN items : items[b][2] <= items[a][2]}
            First(places) == CHOOSE a \in places : \A b \in places : a <= b
            \* a record's names as the graph builder meets them: the source, then
            \* the stripped non-empty parts of where_used
            NamesOfRecord(record) ==
                <<record.field_name>>
                    \o SelectSeq([n \in DOMAIN Split(record.where_used, Separator) |->
                                      Strip(Split(record.where_used, Separator)[n])],
                                 LAMBDA name : name /= <<>>)
            RECURSIVE NamesFrom(_)
            NamesFrom(at) ==
                IF at > Len(results) THEN <<>>
                ELSE NamesOfRecord(results[at]) \o NamesFrom(at + 1)
            names == NamesFrom(1)
            firsts == SelectSeq([n \in DOMAIN names |-> n],
                                LAMBDA n : \A before \in 1..(n - 1) : names[before] /= names[n])
        IN /\ stats.most_dependent_field = in_degrees(graph)[First(Largest(in_degrees(graph)))]
           /\ stats.most_used_field = out_degrees(graph)[First(Largest(out_degrees(graph)))]
           /\ graph.nodes = [n \in DOMAIN firsts |-> names[firsts[n]]]

\* statistics of a graph in which two nodes share the largest in-degree, 2, and
\* two the largest out-degree, 2
TiedDegrees ==
    /\ pc = "statistics"
    /\ stats.most_dependent_field[2] = 2
    /\ stats.most_used_field[2] = 2
    /\ \E a, b \in DOMAIN graph.nodes :
           a < b /\ in_degrees(graph)[a][2] = 2 /\ in_degrees(graph)[b][2] = 2
    /\ \E a, b \in DOMAIN graph.nodes :
           a < b /\ out_degrees(graph)[a][2] = 2 /\ out_degrees(graph)[b][2] = 2

-----------------------------------------------------------------------------
(* Claims about the field-usage records *)

(* C16: the list analyze_fields_usage returns holds one record for each      *)
(* indexed field key whose canonical key has a context count above 0, with   *)
(* that count as used_times and the indexed display name and type, holds no  *)
(* other record, and is sorted by descending used_times, then ascending      *)
(* field_name.                                                               *)
UsageRecordsOfCountedKeys ==
    upc = "returned" =>
        LET counted == SelectSeq(usage_definitions,
                                 LAMBDA item :
                                     UsageCount(usage_counts, clean_field_name(item.field)) > 0)
            expected == [n \in DOMAIN counted |->
                            [field_name |-> counted[n].display_name,
                             field_type |-> counted[n].field_type,
                             used_times |->
                                 UsageCount(usage_counts, clean_field_name(counted[n].field))]]
        IN /\ Len(usage_results) = Len(expected)
           /\ \E p \in Permutations(DOMAIN expected) :
                  \A n \in DOMAIN expected : usage_results[n] = expected[p[n]]
           /\ \A a, b \in DOMAIN usage_results :
                  a < b => ~KeyBefore(usage_results[b], usage_results[a])

-----------------------------------------------------------------------------
(* Claims about canonicalization *)

(* C17: a reference that opens with "[", closes with "]" and whose text      *)
(* between the brackets holds a colon is canonicalized to "[" Name "]",      *)
(* Name being the second colon-delimited part, which is also the canonical   *)
(* name of the plain reference "[" Name "]"; every other reference is        *)
(* returned unchanged.                                                       *)
CleanByPattern ==
    cpc \in {"once", "twice"} =>
        LET decorated == /\ Len(field_name) >= 2
                         /\ field_name[1] = "["
                         /\ field_name[Len(field_name)] = "]"
                         /\ Contains(Inner(field_name), <<":">>)
            plain == <<"[">> \o Split(Inner(field_name), <<":">>)[2] \o <<"]">>
        IN IF decorated
           THEN clean_name = plain /\ clean_field_name(plain) = clean_name
           ELSE clean_name = field_name

-----------------------------------------------------------------------------
(* Claims about the two indexes of field definitions and the field types *)

(* C13 as stated: a key defined by a column under a datasource and by a      *)
(* column under datasource-dependencies is indexed with the definition of a  *)
(* datasource column, in the usage index and in the dependency index, and a  *)
(* key defined only under datasource-dependencies is indexed.                *)
PrimaryOverSupplementary ==
    \A key \in {doc[n].name : n \in DOMAIN doc} :
        LET primary == ColumnsOf("datasource", key)
            supplementary == ColumnsOf("datasource-dependencies", key)
        IN /\ UsageIndexed /\ supplementary /= {} =>
                  /\ key \in Keys(usage_definitions)
                  /\ primary /= {} =>
                         \E n \in primary :
                             [field |-> key,
                              display_name |-> DisplayName(doc[n]),
                              field_type |-> determine_field_type(doc[n])]
                                 \in Range(usage_definitions)
           /\ DependenciesIndexed /\ supplementary /= {} =>
                  /\ key \in DOMAIN field_definitions
                  /\ primary /= {} =>
                         \E n \in primary : field_definitions[key] = DisplayName(doc[n])

(* C13, amended: a key defined by a column under a datasource other than     *)
(* Parameters and by a column under datasource-dependencies is indexed with  *)
(* the definition of a datasource column, in both indexes; a key defined     *)
(* only under datasource-dependencies is indexed; and a key whose datasource *)
(* columns are all under Parameters is indexed for usage with the definition *)
(* of its first datasource-dependencies column.                              *)
PrimaryReadOverSupplementary ==
    \A key \in {doc[n].name : n \in DOMAIN doc} :
        LET primary == ColumnsOf("datasource", key)
            read == {n \in primary : doc[n].datasource /= Parameters}
            supplementary == ColumnsOf("datasource-dependencies", key)
            first == CHOOSE n \in supplementary : \A m \in supplementary : n <= m
        IN /\ UsageIndexed /\ supplementary /= {} =>
                  /\ key \in Keys(usage_definitions)
                  /\ read /= {} =>
                         \E n \in primary :
                             [field |-> key,
                              display_name |-> DisplayName(doc[n]),
                              field_type |-> determine_field_type(doc[n])]
                                 \in Range(usage_definitions)
                  /\ read = {} =>
                         [field |-> key,
                          display_name |-> DisplayName(doc[first]),
                          field_type |-> determine_field_type(doc[first])]
                             \in Range(usage_definitions)
           /\ DependenciesIndexed /\ supplementary /= {} =>
                  /\ key \in DOMAIN field_definitions
                  /\ read /= {} =>
                         \E n \in primary : field_definitions[key] = DisplayName(doc[n])

\* both indexes built of a document that lists [S] with a caption under
\* datasource-dependencies before it defines [S] without one under a datasource
SupplementaryBeforePrimary ==
    /\ UsageIndexed
    /\ DependenciesIndexed
    /\ Len(doc) = 2
    /\ doc[1] = Column("datasource-dependencies", Federated, KeyS, CaptionK, FALSE, FALSE, <<>>)
    /\ doc[2] = Column("datasource", Federated, KeyS, <<>>, FALSE, FALSE, <<>>)
    /\ field_definitions[KeyS] = <<"S">>
    /\ usage_definitions[1].display_name = <<"S">>

(* C14: every type in the usage index and every type in the dictionary of    *)
(* the graph builder is that of a column of the indexed name resolved as     *)
(* Parameter if the column has param-domain-type or belongs to the           *)
(* Parameters datasource, else Calculated Field if it has a calculation,     *)
(* else Raw Variable; and a column that alone carries its key and its        *)
(* display name has the same type in both.                                   *)
TypeResolutionOrder ==
    LET Resolution(column) ==
            IF column.pdt \/ column.datasource = Parameters THEN "Parameter"
            ELSE IF column.calc THEN "Calculated Field"
            ELSE "Raw Variable"
    IN /\ UsageIndexed =>
              \A item \in Range(usage_definitions) :
                  \E n \in DOMAIN doc :
                      /\ doc[n].name = item.field
                      /\ DisplayName(doc[n]) = item.display_name
                      /\ Resolution(doc[n]) = item.field_type
       /\ TypesExtracted =>
              \A name \in DOMAIN field_types :
                  \E n \in DOMAIN doc :
                      /\ TypeDisplayName(doc[n]) = name
                      /\ Resolution(doc[n]) = field_types[name]
       /\ UsageIndexed /\ TypesExtracted =>
              \A n \in DOMAIN doc :
                  /\ \A m \in DOMAIN doc \ {n} :
                         /\ doc[m].name /= doc[n].name
                         /\ TypeDisplayName(doc[m]) /= TypeDisplayName(doc[n])
                  /\ doc[n].name \in Keys(usage_definitions)
                  /\ TypeDisplayName(doc[n]) \in DOMAIN field_types
                  => \E item \in Range(usage_definitions) :
                         /\ item.field = doc[n].name
                         /\ item.field_type = field_types[TypeDisplayName(doc[n])]

(* C18: each index holds for a key the definition of the first column of     *)
(* that key its passes meet: the first datasource column in document order,  *)
(* or without one the first datasource-dependencies column.                  *)
FirstSeenWins ==
    \A key \in {doc[n].name : n \in DOMAIN doc} :
        LET First(places) == CHOOSE n \in places : \A m \in places : n <= m
            primary == ColumnsOf("datasource", key)
            read == {n \in primary : doc[n].datasource /= Parameters}
            supplementary == ColumnsOf("datasource-dependencies", key)
        IN /\ UsageIndexed /\ read \cup supplementary /= {} =>
                  LET n == IF read /= {} THEN First(read) ELSE First(supplementary)
                  IN [field |-> key,
                      display_name |-> DisplayName(doc[n]),
                      field_type |-> determine_field_type(doc[n])]
                         \in Range(usage_definitions)
           /\ DependenciesIndexed /\ primary \cup supplementary /= {} =>
                  LET n == IF primary /= {} THEN First(primary) ELSE First(supplementary)
                  IN /\ key \in DOMAIN field_definitions
                     /\ field_definitions[key] = DisplayName(doc[n])

(* C19: a key whose only columns are under the datasource named Parameters   *)
(* is in neither index: not in the index of the usage records and not in the *)
(* index that resolves formula references.                                   *)
ParametersDatasourceSkipped ==
    \A key \in {doc[n].name : n \in DOMAIN doc} :
        /\ ColumnsOf("datasource", key) /= {}
        /\ \A n \in ColumnsOf("datasource", key) : doc[n].datasource = Parameters
        /\ ColumnsOf("datasource-dependencies", key) = {}
        => /\ UsageIndexed => key \notin Keys(usage_definitions)
           /\ DependenciesIndexed => key \notin DOMAIN field_definitions

-----------------------------------------------------------------------------
(* Claims about fatal errors *)

(* C15: on a path that does not exist each of the three operations ends with *)
(* FileNotFoundError before any parse; on a file that is no well-formed XML  *)
(* it ends with the ParseError of its one parse; in both cases no index, no  *)
(* result list and no graph is made.                                         *)
FatalErrorsRaised ==
    file /= "well-formed" =>
        /\ upc \in {"idle", "call", "raised"}
        /\ pc \in {"idle", "analyze", "construct", "network", "raised"}
        /\ file = "missing" =>
               /\ parses = 0
               /\ ~in_network
               /\ upc = "raised" \/ pc = "raised" => error = "FileNotFoundError"
        /\ file = "malformed" =>
               /\ upc = "raised" \/ pc = "raised" => error = "ParseError" /\ parses = 1
               /\ upc = "call" \/ pc \in {"analyze", "construct", "network"} => parses = 0
        /\ usage_definitions = <<>> /\ usage_results = <<>>
        /\ field_definitions = <<>> /\ results = <<>>
        /\ field_types = <<>> /\ graph = EmptyGraph /\ stats = <<>>

\* create_dependencies_network has passed its existence test and ended with the
\* ParseError of the analysis it calls
NetworkRaisedParseError ==
    /\ file = "malformed"
    /\ in_network
    /\ pc = "raised"
    /\ error = "ParseError"

-----------------------------------------------------------------------------
(* Claims about parameter references in formulas *)

(* C20: the sources the field reference extractor contributes are those of   *)
(* the bracket tokens left once every [Parameters].[name] reference is taken *)
(* out of the formula, tokens with a parenthesis and keywords excluded, so   *)
(* that the records returned name these sources and the names of the         *)
(* parameter extractor and nothing else.                                     *)
ParameterReferenceProcessedOnce ==
    LET WithoutParameters(formula) ==
            LET RECURSIVE From(_)
                From(at) ==
                    IF at > Len(formula) THEN <<>>
                    ELSE LET open == at + Len(ParametersPrefix)
                             close == FirstClose(formula, open + 1)
                         IN IF /\ StartsWithAt(formula, ParametersPrefix \o <<"[">>, at)
                               /\ close > open + 1
                            THEN From(close + 1)
                            ELSE <<formula[at]>> \o From(at + 1)
            IN From(1)
        FieldSources(formula) ==
            {Resolve(token, field_definitions) :
                 token \in {t \in Range(FindTokens(WithoutParameters(formula), 1)) :
                                /\ Upper(t) \notin Keywords
                                /\ "(" \notin Range(t)
                                /\ ")" \notin Range(t)}}
        OfFields == UNION {FieldSources(doc[n].formula) : n \in CalculatedFields}
        OfParameters ==
            UNION {Range(ParameterReferences(doc[n].formula)) :
                       n \in {m \in DOMAIN doc : doc[m].calc /\ doc[m].formula /= <<>>}}
    IN /\ pc = "dependencies" /\ ci > Len(doc) /\ pi = 1 => Keys(dependencies) = OfFields
       /\ Returned => RecordNames = OfFields \cup OfParameters

-----------------------------------------------------------------------------
(* Claims about the graph builder and the statistics of its outputs *)

(* C24: for every graph that create_dependencies_network returns, the graph  *)
(* without nodes and the graph of one node included, the call of             *)
(* generate_network_statistics in run() returns a dictionary with the node   *)
(* count, the edge count, the density (0 below two nodes), the connectivity  *)
(* flag and the histogram of field types, and raises nothing.                *)
StatisticsTotal ==
    StatisticsCalled =>
        /\ pc = "statistics"
        /\ error = "none"
        /\ {"total_nodes", "total_edges", "density", "is_connected",
            "field_type_distribution"} \subseteq DOMAIN stats
        /\ stats.total_nodes = Len(graph.nodes)
        /\ stats.total_edges = Len(graph.edges)
        /\ Len(graph.nodes) < 2 => stats.density.num = 0

(* C25: inside one call of create_dependencies_network, the dependency       *)
(* extraction and the graph building together, ET.parse has read the         *)
(* workbook file at most once, and exactly once when the graph is built.     *)
ParsedOnce ==
    in_network =>
        /\ parses <= 1
        /\ pc \in {"graph", "statistics"} => parses = 1

(* C22: in the graph returned, every node that is the source of a dependency *)
(* record has node_type "source" and the field_type of the type table, or    *)
(* "Unknown"; every other node has node_type "dependent" and the field_type  *)
(* of the type table, or "Calculated Field".                                 *)
NodeTypeByRole ==
    GraphBuilt =>
        \A node \in Range(graph.nodes) :
            IF node \in RecordNames
            THEN /\ graph.attrs[node].node_type = "source"
                 /\ graph.attrs[node].field_type = TypeOf(field_types, node, "Unknown")
            ELSE /\ graph.attrs[node].node_type = "dependent"
                 /\ graph.attrs[node].field_type =
                        TypeOf(field_types, node, "Calculated Field")

-----------------------------------------------------------------------------
(* Claims about the sources of a worksheet's field set *)

(* C23: once a worksheet is counted, every bracketed column-instance of a    *)
(* dependency listing other than that of Parameters, every bracketed field   *)
(* attribute of an encoding and every bracketed shelf column text of it has  *)
(* its canonical name among the counted fields, and a field is counted only  *)
(* if such a reference or a dashboard encoding names it: the column-         *)
(* instances listed under Parameters add nothing.                            *)
ParametersListingExcluded ==
    LET Listed(w) ==
            UNION {Bracketed(d.columns) :
                       d \in {x \in Range(w.deps) : x.datasource /= Parameters}}
        Encoded(e) == Bracketed([n \in DOMAIN e |-> IF e[n].attr THEN e[n].field ELSE <<>>])
        Shelved(w) == Bracketed(w.cols) \cup Bracketed(w.rows)
        Read == UNION {Listed(worksheets[n]) \cup Encoded(worksheets[n].encodings)
                           \cup Shelved(worksheets[n]) : n \in 1..(wi - 1)}
                \cup UNION {Encoded(dashboards[n].encodings) : n \in 1..(di - 1)}
    IN DOMAIN usage_counts = {clean_field_name(r) : r \in Read}

\* a worksheet that lists [P] under Parameters and [none:T:nk] under another
\* datasource has been counted: [T] is a counted field and [P] is not
ParameterInstanceNotCounted ==
    /\ wi > 1
    /\ \E n \in 1..(wi - 1) :
          \E d \in Range(worksheets[n].deps) :
              d.datasource = Parameters /\ RefP \in Range(d.columns)
    /\ RefT \in DOMAIN usage_counts
    /\ RefP \notin DOMAIN usage_counts

-----------------------------------------------------------------------------
(* Claims about the keys and the names of the field-definition index *)

(* C21: every key of the index of the dependency analysis and of the index   *)
(* of the usage analysis begins with "[" and ends with "]"; a column without *)
(* such a name is skipped and the columns after it are still indexed; and a  *)
(* key none of whose columns has a caption has as display name the key       *)
(* without its two enclosing brackets.                                       *)
KeysBracketDelimited ==
    LET Delimited(key) == Len(key) >= 2 /\ key[1] = "[" /\ key[Len(key)] = "]"
        Uncaptioned(key) == \A n \in DOMAIN doc : doc[n].name = key => doc[n].caption = <<>>
        Indexed(n) == Delimited(doc[n].name) /\ doc[n].datasource /= Parameters
    IN /\ DependenciesIndexed =>
            /\ \A key \in DOMAIN field_definitions :
                  /\ Delimited(key)
                  /\ Uncaptioned(key) =>
                         <<"[">> \o field_definitions[key] \o <<"]">> = key
            /\ \A n \in DOMAIN doc :
                  Delimited(doc[n].name) => doc[n].name \in DOMAIN field_definitions
       /\ UsageIndexed =>
            /\ \A n \in DOMAIN usage_definitions :
                  /\ Delimited(usage_definitions[n].field)
                  /\ Uncaptioned(usage_definitions[n].field) =>
                         <<"[">> \o usage_definitions[n].display_name \o <<"]">>
                             = usage_definitions[n].field
            /\ \A n \in DOMAIN doc :
                  Indexed(n) =>
                      \E m \in DOMAIN usage_definitions :
                          usage_definitions[m].field = doc[n].name

(* C27: a calculated field is recorded as a consumer under the display name  *)
(* that the index gives to its key, the name under which a formula that      *)
(* references the key records it as a source: when the analysis returns,     *)
(* the consumers recorded for every source that the formula of a calculated  *)
(* column references include the indexed name of that column's key.          *)
ConsumerNamedAsIndexed ==
    pc = "returned" =>
        \A n \in CalculatedFields :
            \A source \in extract_field_references_from_formula(doc[n].formula,
                                                               field_definitions) :
                field_definitions[doc[n].name] \in Users(source)

(* C29: the index is read-only once it is built: no step of                  *)
(* _extract_field_dependencies (with the calls of                            *)
(* _extract_field_references_from_formula it makes) and of the record        *)
(* builder changes field_definitions, and no step of the usage counting and  *)
(* of _create_usage_results changes the index of the usage analysis.         *)
IndexReadOnly ==
    [][/\ pc = "dependencies" => field_definitions' = field_definitions
       /\ upc = "counting" => usage_definitions' = usage_definitions]_vars

\* the analysis has returned a record for A, a formula token without definition
\* that fell back to its raw text, and the index is the one the indexer built
RawFallbackLeftIndex ==
    /\ pc = "returned"
    /\ <<"A">> \in RecordNames
    /\ KeyA \notin DOMAIN field_definitions
    /\ field_definitions /= <<>>
    /\ field_definitions = extract_field_definitions(doc)

-----------------------------------------------------------------------------
(* Claims about the file system *)

(* C30: when the input path does not exist, making the visualizer and        *)
(* calling run() ends with FileNotFoundError and the output directory, which *)
(* did not exist before, has not been created.                               *)
NotFoundLeavesNoDirectory ==
    file = "missing" /\ pc = "raised" /\ error = "FileNotFoundError" => ~output_dir

-----------------------------------------------------------------------------
(* ConfigManager: load_config, get_config and setup_logging called in any    *)
(* order on one manager, the file at config_path changing between the calls  *)

\* what config_path can hold: nothing, text that is no YAML, or a YAML mapping,
\* given by the sections and keys that _validate_config looks for, present or
\* absent (a key only inside its section)
ConfigContents ==
    {[kind |-> "missing", keys |-> {}], [kind |-> "malformed", keys |-> {}]}
    \cup {[kind |-> "mapping", keys |-> keys] :
              keys \in {k \in SUBSET {"tableau", "tableau.file_path", "logging",
                                      "logging.level"} :
                           /\ "tableau.file_path" \in k => "tableau" \in k
                           /\ "logging.level" \in k => "logging" \in k}}

\* _validate_config raises no ValueError
validate_config(keys) ==
    /\ "tableau" \in keys
    /\ "logging" \in keys
    /\ "tableau.file_path" \in keys
    /\ "logging.level" \in keys

ConfigInit ==
    /\ ConfigIdle
    /\ MainIdle
    /\ CleanIdle
    /\ UsageIdle
    /\ DepsIdle
    /\ FileIdle

\* load_config: the existence test, yaml.safe_load, then
\* self._config = Munch.fromDict(config_data) and only then self._validate_config();
\* the handlers log and re-raise
LoadConfig ==
    /\ calls < MaxCalls
    /\ calls' = calls + 1
    /\ \E content \in ConfigContents :
          CASE content.kind = "missing" ->
                   /\ config' = config
                   /\ outcome' = [method |-> "load_config", raised |-> "FileNotFoundError",
                                  returned |-> [loaded |-> FALSE, keys |-> {}]]
            [] content.kind = "malformed" ->
                   /\ config' = config
                   /\ outcome' = [method |-> "load_config", raised |-> "YAMLError",
                                  returned |-> [loaded |-> FALSE, keys |-> {}]]
            [] OTHER ->
                   /\ config' = [loaded |-> TRUE, keys |-> content.keys]
                   /\ outcome' =
                          IF validate_config(content.keys)
                          THEN [method |-> "load_config", raised |-> "none",
                                returned |-> config']
                          ELSE [method |-> "load_config", raised |-> "ValueError",
                                returned |-> [loaded |-> FALSE, keys |-> {}]]
    /\ UNCHANGED <<clean_vars, usage_vars, deps_vars, main_vars>>

\* get_config: RuntimeError if self._config is None, else return self._config
GetConfig ==
    /\ calls < MaxCalls
    /\ calls' = calls + 1
    /\ outcome' =
           IF ~config.loaded
           THEN [method |-> "get_config", raised |-> "RuntimeError",
                 returned |-> [loaded |-> FALSE, keys |-> {}]]
           ELSE [method |-> "get_config", raised |-> "none", returned |-> config]
    /\ UNCHANGED <<config, clean_vars, usage_vars, deps_vars, main_vars>>

\* setup_logging: RuntimeError if self._config is None; then
\* self._config.logging.level.upper(), an attribute read that a Munch without
\* the section or the key answers with AttributeError; then logging.basicConfig
\* with the configuration in use
SetupLogging ==
    /\ calls < MaxCalls
    /\ calls' = calls + 1
    /\ outcome' =
           CASE ~config.loaded ->
                    [method |-> "setup_logging", raised |-> "RuntimeError",
                     returned |-> [loaded |-> FALSE, keys |-> {}]]
             [] config.loaded /\ "logging.level" \notin config.keys ->
                    [method |-> "setup_logging", raised |-> "AttributeError",
                     returned |-> [loaded |-> FALSE, keys |-> {}]]
             [] OTHER ->
                    [method |-> "setup_logging", raised |-> "none", returned |-> config]
    /\ UNCHANGED <<config, clean_vars, usage_vars, deps_vars, main_vars>>

ConfigNext == LoadConfig \/ GetConfig \/ SetupLogging

SpecConfig == ConfigInit /\ [][ConfigNext]_vars

(* C28: after any calls of load_config, get_config and setup_logging,        *)
(* get_config and setup_logging raise RuntimeError exactly when no           *)
(* configuration is loaded, the configuration that get_config returns or     *)
(* setup_logging uses has the sections tableau and logging with the keys     *)
(* file_path and level, and the manager holds no configuration that failed   *)
(* _validate_config.                                                         *)
ConfigLoadedIsValid ==
    /\ outcome.method \in {"get_config", "setup_logging"} =>
          /\ outcome.raised = "RuntimeError" <=> ~config.loaded
          /\ outcome.raised = "none" => validate_config(outcome.returned.keys)
    /\ config.loaded => validate_config(config.keys)

-----------------------------------------------------------------------------
(* main: the configuration is loaded and valid, logging is set up and the    *)
(* extractors that the configuration enables have run; main goes on with     *)
(* the field-usage analysis (main.py line 73)                                *)

MainInit ==
    /\ mpc = "start"
    /\ output_dir = FALSE
    /\ config = [loaded |-> TRUE,
                 keys |-> {"tableau", "tableau.file_path", "logging", "logging.level"}]
    /\ outcome = [method |-> "load_config", raised |-> "none", returned |-> config]
    /\ calls = 1
    /\ file \in {"missing", "malformed", "well-formed"}
    /\ doc \in IF file = "well-formed"
               THEN ListsUpTo(UsageColumnPool, MaxUsageColumns) ELSE {<<>>}
    /\ worksheets \in IF file = "well-formed"
                      THEN {<<worksheet>> : worksheet \in WorksheetPool} ELSE {<<>>}
    /\ dashboards \in IF file = "well-formed"
                      THEN {<<dashboard>> : dashboard \in DashboardPool} ELSE {<<>>}
    /\ error = "none"
    /\ parses = 0
    /\ upc = "idle"
    /\ usage_definitions = <<>>
    /\ usage_counts = <<>>
    /\ usage_results = <<>>
    /\ wi = 1
    /\ di = 1
    /\ CleanIdle
    /\ DepsIdle

\* field_results = analyze_tableau_fields(file_path=config.tableau.file_path)
MainAnalyzeFields ==
    /\ mpc = "start"
    /\ mpc' = "usage"
    /\ upc' = "call"
    /\ UNCHANGED <<worksheets, dashboards, usage_counts, wi, di, usage_definitions,
                   usage_results, output_dir, clean_vars, deps_vars, config_vars>>

\* analyze_tableau_fields has raised, or it has returned the list of
\* analyzer.run() and main evaluates field_results.get("used", []): a list has
\* no attribute get, so AttributeError is raised; the except clause of main
\* logs the exception and raises it again
MainCountFields ==
    /\ mpc = "usage"
    /\ upc \in {"returned", "raised"}
    /\ mpc' = "raised"
    /\ error' = IF upc = "raised" THEN error ELSE "AttributeError"
    /\ UNCHANGED <<doc, pc, run, ci, pi, field_definitions, dependencies, results,
                   first_results, field_types, graph, ri, file, parses, in_network,
                   stats, output_dir, clean_vars, usage_vars, config_vars>>

MainNext == MainAnalyzeFields \/ UsageNext \/ MainCountFields

\* main is one thread that runs each statement once the one before has ended
SpecMain == MainInit /\ [][MainNext]_vars /\ WF_vars(MainNext)

(* C26: on a valid configuration and an existing well-formed workbook main   *)
(* eventually reaches its step 'Documentation generation completed', and     *)
(* the dependency extraction never starts before the field-usage analysis    *)
(* has returned.                                                             *)
MainCompletesInOrder ==
    /\ [](pc /= "idle" => upc = "returned")
    /\ file = "well-formed" ~> mpc = "completed"

====
